---- MODULE Spec2Model ----
(***************************************************************************)
(* django-lazy-srcset: the srcset template tag (lazy_srcset/templatetags/  *)
(* lazy_srcset.py), its settings (lazy_srcset/conf.py), its image          *)
(* generator (lazy_srcset/imagegenerators.py) and the imagekit_cleanup     *)
(* management command (lazy_srcset/management/commands/imagekit_cleanup.py)*)
(*                                                                         *)
(* Python values are modelled as follows.                                  *)
(*   dict            a function whose DOMAIN is the set of keys            *)
(*   list            a sequence                                            *)
(*   None            the number None (-1) for max_width and quality, the   *)
(*                   string "None" for a format                            *)
(*   a size          [n |-> number, u |-> suffix]: the template literal    *)
(*                   25 is [n |-> 25, u |-> ""], '50vw' is                 *)
(*                   [n |-> 50, u |-> "vw"], '300px' is [n |-> 300,        *)
(*                   u |-> "px"]                                           *)
(*   a kwarg name    a string; a breakpoint kwarg is the decimal string of *)
(*                   its number ("1200")                                   *)
(***************************************************************************)
EXTENDS Integers, Sequences, FiniteSets, TLC

VARIABLES
    settings,   \* the django settings lazy_srcset.conf.settings resolves
    request,    \* the arguments of the {% srcset %} tag being rendered
    html,       \* what the last srcset call returned
    requested,  \* the generator requests of the last call, in order
    plan,       \* the locals of the last call when it returned
    cache,      \* the files of IMAGEKIT_CACHEFILE_DIR, each with its mtime
    clock,      \* the time of the file system
    ncalls,     \* how many times the tag was rendered
    history,    \* the tags rendered so far, in order
    call,       \* the srcset call in progress, when its steps interleave with a sweep
    media,      \* imagekit_cleanup: the files of the media storage, by directory
    static,     \* imagekit_cleanup: the files of the static storage, by directory
    state_cache,\* imagekit_cleanup: the keys of the imagekit state cache
    swept,      \* imagekit_cleanup: whether handle() has run
    before,     \* imagekit_cleanup: the storage and state cache handle() found
    sweep       \* imagekit_cleanup: the run of handle() in progress, step by step

vars == <<settings, request, html, requested, plan, cache, clock, ncalls, history, call,
          media, static, state_cache, swept, before, sweep>>

renderVars == <<settings, request, html, requested, plan, cache, clock, ncalls, history,
                call>>
cleanupVars == <<media, static, state_cache, swept, before, sweep>>

(***************************************************************************)
(* Bounds of the model.                                                    *)
(***************************************************************************)
MaxArgs == 2
MaxCalls == 2

(***************************************************************************)
(* Helpers for Python's dicts and sorted().                                *)
(***************************************************************************)
EmptyDict == <<>>

DictSet(d, k, v) == [x \in (DOMAIN d) \cup {k} |-> IF x = k THEN v ELSE d[x]]

DictMerge(d, e) == [x \in (DOMAIN d) \cup (DOMAIN e) |->
                        IF x \in DOMAIN e THEN e[x] ELSE d[x]]

SetMin(S) == CHOOSE x \in S : \A y \in S : x <= y

SetMax(S) == CHOOSE x \in S : \A y \in S : y <= x

RECURSIVE Sorted(_)
Sorted(S) == IF S = {} THEN <<>>
             ELSE <<SetMin(S)>> \o Sorted(S \ {SetMin(S)})

RECURSIVE Reversed(_)
Reversed(s) == IF s = <<>> THEN <<>>
               ELSE Reversed(Tail(s)) \o <<Head(s)>>

Range(s) == {s[i] : i \in DOMAIN s}

(***************************************************************************)
(* lazy_srcset/conf.py                                                     *)
(***************************************************************************)
None == -1

LAZY_SRCSET_THRESHOLD == 69

LAZY_SRCSET_GENERATOR_ID == "lazy_srcset:srcset_image"

DefaultConfig ==
    [breakpoints |-> <<1920, 1580, 1280, 1024, 640>>,
     max_width |-> 2560,
     quality |-> 91,
     format |-> "WEBP",
     threshold |-> LAZY_SRCSET_THRESHOLD,
     generator_id |-> LAZY_SRCSET_GENERATOR_ID]

\* Two configs a project adds to LAZY_SRCSET.  "custom" sets max_width and
\* quality to None, gives a default_size and leaves the threshold to
\* LAZY_SRCSET_THRESHOLD; "minimal" defines breakpoints only, the one setting
\* a config must define.
CustomConfig ==
    [breakpoints |-> <<400, 1200>>,
     max_width |-> None,
     quality |-> None,
     default_size |-> [n |-> 33, u |-> ""]]

MinimalConfig == [breakpoints |-> <<800>>]

LAZY_SRCSET ==
    [default |-> DefaultConfig, custom |-> CustomConfig, minimal |-> MinimalConfig]

LAZY_SRCSET_IGNORED_EXTENSIONS == {".gif"}

LazySrcsetSettings(enabled) ==
    [LAZY_SRCSET_ENABLED |-> enabled,
     LAZY_SRCSET_THRESHOLD |-> LAZY_SRCSET_THRESHOLD,
     LAZY_SRCSET_GENERATOR_ID |-> LAZY_SRCSET_GENERATOR_ID,
     LAZY_SRCSET |-> LAZY_SRCSET,
     LAZY_SRCSET_IGNORED_EXTENSIONS |-> LAZY_SRCSET_IGNORED_EXTENSIONS]

(***************************************************************************)
(* lazy_srcset/templatetags/lazy_srcset.py                                 *)
(***************************************************************************)
Size(n, u) == [n |-> n, u |-> u]

\* lists_to_dict pairing the values with the keys in ascending key order
\* (a faulty variant, told apart by C9)
lists_to_dict_ascending(keys, values) ==
    LET sorted == Sorted(Range(keys))
    IN  [k \in Range(keys) |->
            LET i == CHOOSE j \in DOMAIN sorted : sorted[j] = k
            IN  IF i <= Len(values) THEN values[i] ELSE Size(100, "")]

\* lists_to_dict(keys, values, default_value=100)
lists_to_dict(keys, values) ==
    [k \in Range(keys) |->
        LET i == SetMax({j \in DOMAIN keys : keys[j] = k})
        IN  IF i <= Len(values) THEN values[i] ELSE Size(100, "")]

\* int() of the decimal strings that name a breakpoint
DecimalValue ==
    [k \in {"400", "1024", "1200", "1920"} |->
        CASE k = "400" -> 400 [] k = "1024" -> 1024 [] k = "1200" -> 1200 [] k = "1920" -> 1920]

\* sanitize_breakpoint: b is [i |-> an int] or [s |-> a string]
sanitize_breakpoint(b) ==
    IF "i" \in DOMAIN b THEN [ok |-> TRUE, value |-> b.i]
    ELSE IF b.s \in DOMAIN DecimalValue
         THEN [ok |-> TRUE, value |-> DecimalValue[b.s]]
         ELSE [ok |-> FALSE]

\* sanitize_size
sanitize_size(size) ==
    IF size.u = "" THEN [ok |-> TRUE, width |-> size.n, units |-> "vw"]
    ELSE IF size.u \in {"px", "vw"}
         THEN [ok |-> TRUE, width |-> size.n, units |-> size.u]
         ELSE [ok |-> FALSE]

ScalarKeys == {"default_size", "max_width", "quality", "threshold"}

\* get_config reading the kwargs without popping them (a faulty variant, told
\* apart by C10)
get_config_without_pop(kwargs, S) ==
    LET conf_key == IF "config" \in DOMAIN kwargs THEN kwargs["config"] ELSE "default"
        popped == (DOMAIN kwargs) \cap ScalarKeys
    IN  IF conf_key \notin DOMAIN S.LAZY_SRCSET
        THEN [ok |-> FALSE, error |-> "KeyError"]
        ELSE LET copy == S.LAZY_SRCSET[conf_key]
                 conf1 == DictMerge(copy, [k \in popped |-> kwargs[k]])
                 conf2 == IF "threshold" \in DOMAIN conf1 THEN conf1
                          ELSE DictSet(conf1, "threshold", S.LAZY_SRCSET_THRESHOLD)
                 conf3 == IF "generator_id" \in DOMAIN conf2 THEN conf2
                          ELSE DictSet(conf2, "generator_id", S.LAZY_SRCSET_GENERATOR_ID)
             IN  [ok |-> TRUE, conf |-> conf3, kwargs |-> kwargs, own |-> TRUE]

\* get_config working on the dict of the settings table itself, without
\* .copy() (a faulty variant, told apart by C16)
get_config_without_copy(kwargs, S) ==
    LET conf_key == IF "config" \in DOMAIN kwargs THEN kwargs["config"] ELSE "default"
        popped == (DOMAIN kwargs) \cap ScalarKeys
        rest == [k \in (DOMAIN kwargs) \ (ScalarKeys \cup {"config"}) |-> kwargs[k]]
    IN  IF conf_key \notin DOMAIN S.LAZY_SRCSET
        THEN [ok |-> FALSE, error |-> "KeyError"]
        ELSE LET copy == S.LAZY_SRCSET[conf_key]
                 conf1 == DictMerge(copy, [k \in popped |-> kwargs[k]])
                 conf2 == IF "threshold" \in DOMAIN conf1 THEN conf1
                          ELSE DictSet(conf1, "threshold", S.LAZY_SRCSET_THRESHOLD)
                 conf3 == IF "generator_id" \in DOMAIN conf2 THEN conf2
                          ELSE DictSet(conf2, "generator_id", S.LAZY_SRCSET_GENERATOR_ID)
             IN  [ok |-> TRUE, conf |-> conf3, kwargs |-> rest, own |-> FALSE]

\* get_config: the conf of this run and the kwargs left after the pops; own
\* tells that conf is a dict of its own (the .copy() of the named config),
\* not the dict of the settings table
get_config(kwargs, S) ==
    LET conf_key == IF "config" \in DOMAIN kwargs THEN kwargs["config"] ELSE "default"
        popped == (DOMAIN kwargs) \cap ScalarKeys
        rest == [k \in (DOMAIN kwargs) \ (ScalarKeys \cup {"config"}) |-> kwargs[k]]
    IN  IF conf_key \notin DOMAIN S.LAZY_SRCSET
        THEN [ok |-> FALSE, error |-> "KeyError"]
        ELSE LET copy == S.LAZY_SRCSET[conf_key]
                 conf1 == DictMerge(copy, [k \in popped |-> kwargs[k]])
                 conf2 == IF "threshold" \in DOMAIN conf1 THEN conf1
                          ELSE DictSet(conf1, "threshold", S.LAZY_SRCSET_THRESHOLD)
                 conf3 == IF "generator_id" \in DOMAIN conf2 THEN conf2
                          ELSE DictSet(conf2, "generator_id", S.LAZY_SRCSET_GENERATOR_ID)
             IN  [ok |-> TRUE, conf |-> conf3, kwargs |-> rest, own |-> TRUE]

\* get_svg_dimensions: the width and height attributes, else the third and
\* fourth tokens of the viewBox, else None
get_svg_dimensions(svg_file) ==
    IF svg_file.attr_width # None /\ svg_file.attr_height # None
    THEN [width |-> svg_file.attr_width, height |-> svg_file.attr_height]
    ELSE IF Len(svg_file.viewBox) = 4
         THEN [width |-> svg_file.viewBox[3], height |-> svg_file.viewBox[4]]
         ELSE [width |-> svg_file.attr_width, height |-> svg_file.attr_height]

\* svg_srcset
svg_srcset(source_img) ==
    LET dims == IF source_img.width = None \/ source_img.height = None
                THEN get_svg_dimensions(source_img)
                ELSE [width |-> source_img.width, height |-> source_img.height]
    IN  IF dims.width # None /\ dims.height # None
        THEN [tag |-> "svg", src |-> source_img.url,
              width |-> dims.width, height |-> dims.height, role |-> "img"]
        ELSE [tag |-> "svg", src |-> source_img.url, role |-> "img"]

\* noop
noop(source_img) ==
    [tag |-> "noop", src |-> source_img.url,
     width |-> source_img.width, height |-> source_img.height]

\* math.ceil(a / b) for b > 0
Ceil(a, b) == 0 - ((0 - a) \div b)

\* sizes_loop leaving the loop body for a px size before the sizes entry is
\* appended (a faulty variant, told apart by C6)
RECURSIVE sizes_loop_px_first(_, _, _, _)
sizes_loop_px_first(keys, sizes_dict, max_width, acc) ==
    IF keys = <<>> THEN acc
    ELSE LET breakpoint_width == Head(keys)
             width == sizes_dict[breakpoint_width].width
             units == sizes_dict[breakpoint_width].units
             entry == [breakpoint |-> breakpoint_width, width |-> width, units |-> units]
             target_width == Ceil(breakpoint_width * width, 100)
         IN  IF units = "px"
             THEN sizes_loop_px_first(Tail(keys), sizes_dict, max_width,
                      [widths_dict |-> DictSet(acc.widths_dict, width, TRUE),
                       sizes |-> acc.sizes, width |-> width, units |-> units])
             ELSE sizes_loop_px_first(Tail(keys), sizes_dict, max_width,
                      [widths_dict |-> IF target_width < max_width
                                       THEN DictSet(acc.widths_dict, target_width, FALSE)
                                       ELSE acc.widths_dict,
                       sizes |-> Append(acc.sizes, entry),
                       width |-> width, units |-> units])

\* the loop over sorted(sizes_dict.keys()) that fills widths_dict and sizes
RECURSIVE sizes_loop(_, _, _, _)
sizes_loop(keys, sizes_dict, max_width, acc) ==
    IF keys = <<>> THEN acc
    ELSE LET breakpoint_width == Head(keys)
             width == sizes_dict[breakpoint_width].width
             units == sizes_dict[breakpoint_width].units
             entry == [breakpoint |-> breakpoint_width, width |-> width, units |-> units]
             target_width == Ceil(breakpoint_width * width, 100)
             widths_dict ==
                 IF units = "px" THEN DictSet(acc.widths_dict, width, TRUE)
                 ELSE IF target_width < max_width
                      THEN DictSet(acc.widths_dict, target_width, FALSE)
                      ELSE acc.widths_dict
         IN  sizes_loop(Tail(keys), sizes_dict, max_width,
                        [widths_dict |-> widths_dict,
                         sizes |-> Append(acc.sizes, entry),
                         width |-> width, units |-> units])

\* the skip test of the loop over reversed(sorted(widths_dict.keys()))
skip_width(required, current_width, width, threshold) ==
    ~required /\ (current_width - width) < threshold

\* widths_loop without "current_width = width" (a faulty variant, told apart
\* by C2)
RECURSIVE widths_loop_stale_current(_, _, _, _, _)
widths_loop_stale_current(widths, widths_dict, threshold, current_width, output) ==
    IF widths = <<>> THEN output
    ELSE LET width == Head(widths)
         IN  IF skip_width(widths_dict[width], current_width, width, threshold)
             THEN widths_loop_stale_current(Tail(widths), widths_dict, threshold,
                                            current_width, output)
             ELSE widths_loop_stale_current(Tail(widths), widths_dict, threshold,
                                            current_width, Append(output, width))

\* the loop over reversed(sorted(widths_dict.keys())): the widths generated
RECURSIVE widths_loop(_, _, _, _, _)
widths_loop(widths, widths_dict, threshold, current_width, output) ==
    IF widths = <<>> THEN output
    ELSE LET width == Head(widths)
         IN  IF skip_width(widths_dict[width], current_width, width, threshold)
             THEN widths_loop(Tail(widths), widths_dict, threshold, current_width, output)
             ELSE widths_loop(Tail(widths), widths_dict, threshold, width,
                              Append(output, width))

(***************************************************************************)
(* lazy_srcset/imagegenerators.py and the imagekit cache file              *)
(***************************************************************************)
\* generator_registry.get(conf["generator_id"], width=, source=, output_format=, quality=)
generator_get(conf, width, source_img) ==
    [generator_id |-> conf["generator_id"],
     width |-> width,
     source |-> source_img.name,
     output_format |-> IF "format" \in DOMAIN conf THEN conf["format"] ELSE "None",
     quality |-> conf["quality"]]

\* SrcsetImage: ResizeToFit(width) resizes proportionally to the given width
SrcsetImage(generator, source_img) ==
    [width |-> generator.width,
     height |-> (2 * source_img.height * generator.width + source_img.width)
                    \div (2 * source_img.width)]

\* ImageCacheFile(generator): the cache file is named after the source and the
\* hash of the generator's parameters
ImageCacheFile(generator) ==
    [source |-> generator.source, width |-> generator.width,
     output_format |-> generator.output_format, quality |-> generator.quality]

\* generate_missing writing every file anew, existing or not (a faulty
\* variant, told apart by C4)
RECURSIVE generate_always(_, _, _)
generate_always(output_imgs, files, now) ==
    IF output_imgs = <<>> THEN files
    ELSE generate_always(Tail(output_imgs),
                         DictSet(files, ImageCacheFile(Head(output_imgs)), now), now)

\* image.url, image.width: the file is generated when it does not exist yet
RECURSIVE generate_missing(_, _, _)
generate_missing(output_imgs, files, now) ==
    IF output_imgs = <<>> THEN files
    ELSE LET name == ImageCacheFile(Head(output_imgs))
         IN  generate_missing(Tail(output_imgs),
                              IF name \in DOMAIN files THEN files
                              ELSE DictSet(files, name, now),
                              now)

\* the result of a call that returns before anything is planned
Returned(out, files) ==
    [html |-> out, requested |-> <<>>, plan |-> [stage |-> out.tag], cache |-> files]

\* the result of a call that raises
Raised(error, files) == Returned([tag |-> "error", error |-> error], files)

\* sizes_dict = kwargs or lists_to_dict(conf["breakpoints"], args), its keys
\* tagged with their Python type
raw_sizes_dict(conf, args, kwargs) ==
    IF DOMAIN kwargs # {}
    THEN [b \in {[s |-> k] : k \in DOMAIN kwargs} |-> kwargs[b.s]]
    ELSE LET d == lists_to_dict(conf["breakpoints"], args)
         IN  [b \in {[i |-> k] : k \in DOMAIN d} |-> d[b.i]]

\* the rest of srcset, from the limit of conf["max_width"] on
plan_and_render(source_img, conf0, sizes_dict, files, now) ==
    LET max_width == IF conf0["max_width"] = None \/ conf0["max_width"] > source_img.width
                     THEN source_img.width
                     ELSE conf0["max_width"]
        conf == DictSet(conf0, "max_width", max_width)
        loop == sizes_loop(Sorted(DOMAIN sizes_dict), sizes_dict, max_width,
                           [widths_dict |-> [w \in {max_width} |-> TRUE],
                            sizes |-> <<>>, width |-> 100, units |-> "vw"])
        default == IF "default_size" \in DOMAIN conf
                   THEN sanitize_size(conf["default_size"])
                   ELSE [ok |-> TRUE, width |-> loop.width, units |-> loop.units]
        sizes == Append(loop.sizes, [width |-> default.width, units |-> default.units])
        widths == widths_loop(Reversed(Sorted(DOMAIN loop.widths_dict)), loop.widths_dict,
                              conf["threshold"], max_width, <<>>)
        output_imgs == [i \in DOMAIN widths |-> generator_get(conf, widths[i], source_img)]
        after == generate_missing(output_imgs, files, now)
        srcsets == [i \in DOMAIN widths |->
                       [url |-> ImageCacheFile(output_imgs[i]),
                        width |-> SrcsetImage(output_imgs[i], source_img).width]]
    IN  IF ~default.ok THEN Raised("TemplateSyntaxError", files)
        ELSE IF "quality" \notin DOMAIN conf THEN Raised("KeyError", files)
        ELSE [html |-> [tag |-> "srcset",
                        src |-> ImageCacheFile(output_imgs[1]),
                        srcset |-> srcsets,
                        sizes |-> sizes,
                        width |-> SrcsetImage(output_imgs[1], source_img).width,
                        height |-> SrcsetImage(output_imgs[1], source_img).height],
              requested |-> output_imgs,
              plan |-> [stage |-> "srcset", conf |-> conf, sizes_dict |-> sizes_dict,
                        widths_dict |-> loop.widths_dict, widths |-> widths],
              cache |-> after]

\* srcset from "conf = get_config(kwargs)" on
srcset_enabled(source_img, args, kwargs, S, files, now) ==
    LET got == get_config(kwargs, S)
    IN  IF ~got.ok THEN Raised(got.error, files)
        ELSE IF DOMAIN got.kwargs = {} /\ "breakpoints" \notin DOMAIN got.conf
        THEN Raised("KeyError", files)
        ELSE LET raw == raw_sizes_dict(got.conf, args, got.kwargs)
             IN  IF \E b \in DOMAIN raw :
                        ~sanitize_breakpoint(b).ok \/ ~sanitize_size(raw[b]).ok
                 THEN Raised("TemplateSyntaxError", files)
                 ELSE IF "max_width" \notin DOMAIN got.conf
                 THEN Raised("KeyError", files)
                 ELSE plan_and_render(
                          source_img, got.conf,
                          [k \in {sanitize_breakpoint(b).value : b \in DOMAIN raw} |->
                              LET b == CHOOSE c \in DOMAIN raw :
                                           sanitize_breakpoint(c).value = k
                              IN  [width |-> sanitize_size(raw[b]).width,
                                   units |-> sanitize_size(raw[b]).units]],
                          files, now)

\* srcset without the test of LAZY_SRCSET_ENABLED (a faulty variant, told
\* apart by C7)
srcset_always_enabled(source_img, args, kwargs, S, files, now) ==
    IF source_img.extension \in S.LAZY_SRCSET_IGNORED_EXTENSIONS
    THEN Returned(noop(source_img), files)
    ELSE IF source_img.extension = ".svg"
    THEN Returned(svg_srcset(source_img), files)
    ELSE srcset_enabled(source_img, args, kwargs, S, files, now)

\* srcset(*args, **kwargs): args[0] is source_img
srcset(source_img, args, kwargs, S, files, now) ==
    IF source_img.extension \in S.LAZY_SRCSET_IGNORED_EXTENSIONS
    THEN Returned(noop(source_img), files)
    ELSE IF source_img.extension = ".svg"
    THEN Returned(svg_srcset(source_img), files)
    ELSE IF ~S.LAZY_SRCSET_ENABLED
    THEN Returned(noop(source_img), files)
    ELSE srcset_enabled(source_img, args, kwargs, S, files, now)

\* settings.LAZY_SRCSET after a call that returned result: every assignment
\* to conf (the overrides and setdefaults of get_config, the limit of
\* conf["max_width"]) lands in the settings table when conf is the table's
\* own dict, and nowhere else when conf is a copy
settings_after(kwargs, S, result) ==
    LET conf_key == IF "config" \in DOMAIN kwargs THEN kwargs["config"] ELSE "default"
        got == get_config(kwargs, S)
    IN  IF result.plan.stage \notin {"srcset", "error"} \/ ~got.ok \/ got.own THEN S
        ELSE [S EXCEPT !.LAZY_SRCSET =
                 [@ EXCEPT ![conf_key] = IF result.plan.stage = "srcset"
                                         THEN result.plan.conf ELSE got.conf]]

(***************************************************************************)
(* The tags rendered: the images, positional sizes and keyword arguments.  *)
(***************************************************************************)
RasterImage(name, extension, width, height) ==
    [name |-> name, extension |-> extension, url |-> name,
     width |-> width, height |-> height]

SvgImage(name, attr_width, attr_height, viewBox) ==
    [name |-> name, extension |-> ".svg", url |-> name, width |-> None, height |-> None,
     attr_width |-> attr_width, attr_height |-> attr_height, viewBox |-> viewBox]

Images ==
    {RasterImage("big.jpg", ".jpg", 1000, 500),
     RasterImage("small.png", ".png", 280, 210),
     RasterImage("anim.gif", ".gif", 64, 64),
     SvgImage("logo.svg", None, None, <<0, 0, 100, 50>>),
     SvgImage("icon.svg", None, None, <<>>)}

ArgSizes == {Size(25, ""), Size(50, "vw"), Size(300, "px")}

SeqsUpTo(S, n) == UNION {[1..k -> S] : k \in 0..n}

BreakpointKwargs ==
    UNION {[K -> {Size(25, ""), Size(300, "px")}] : K \in SUBSET {"400", "1200"}}
    \cup {[k \in {"1024", "1920"} |-> IF k = "1024" THEN Size(50, "vw") ELSE Size(25, "vw")]}

ScalarKwargs ==
    {EmptyDict,
     [config |-> "custom"],
     [config |-> "minimal"],
     [config |-> "minimal", max_width |-> 350, quality |-> 50],
     [max_width |-> 350],
     [max_width |-> 350, threshold |-> 0],
     [threshold |-> 0],
     [threshold |-> 200],
     [default_size |-> Size(50, "vw")],
     [quality |-> 50]}

Requests ==
    {[image |-> i, args |-> a, kwargs |-> DictMerge(k, b)] :
        i \in Images, a \in SeqsUpTo(ArgSizes, MaxArgs),
        k \in ScalarKwargs, b \in BreakpointKwargs}

(***************************************************************************)
(* The state machine of the template tag.                                  *)
(***************************************************************************)
\* no srcset call is in progress
NoCall ==
    [pc |-> "idle", i |-> 0, out |-> [tag |-> "none"],
     created |-> {}, missing |-> {}, failed |-> {}]

\* the command is not running, and its user is denied nothing
NoSweep ==
    [status |-> "idle", stack |-> <<>>, deleted |-> {},
     denied |-> [delete |-> {}, listdir |-> {}], raised |-> "none"]

NoCleanup ==
    /\ sweep = NoSweep
    /\ media = EmptyDict
    /\ static = EmptyDict
    /\ state_cache = {}
    /\ swept = FALSE
    /\ before = EmptyDict

Init ==
    /\ settings \in {LazySrcsetSettings(e) : e \in BOOLEAN}
    /\ request \in Requests
    /\ html = [tag |-> "none"]
    /\ requested = <<>>
    /\ plan = [stage |-> "none"]
    /\ cache = EmptyDict
    /\ clock = 0
    /\ ncalls = 0
    /\ history = <<>>
    /\ call = NoCall
    /\ NoCleanup

\* one call of srcset for the tag {% srcset image args kwargs %}
Rendering(tag) ==
    /\ LET r == srcset(tag.image, tag.args, tag.kwargs, settings, cache, clock)
       IN  /\ html' = r.html
           /\ requested' = r.requested
           /\ plan' = r.plan
           /\ cache' = r.cache
           /\ settings' = settings_after(tag.kwargs, settings, r)
    /\ clock' = clock + 1
    /\ ncalls' = ncalls + 1
    /\ history' = Append(history, tag)

\* the template renders its tag, again on each request of the page
Render ==
    /\ ncalls < MaxCalls
    /\ Rendering(request)
    /\ UNCHANGED <<request, call, cleanupVars>>

Next == Render

Spec == Init /\ [][Next]_vars

(***************************************************************************)
(* lazy_srcset/management/commands/imagekit_cleanup.py                     *)
(*                                                                         *)
(* A storage is a function from its directories to the set of files of     *)
(* each; a directory is the sequence of directory names from the storage's *)
(* location; a file name is the sequence of its parts between the dots     *)
(* (my.photo.jpg is <<"my", "photo", "jpg">>).                             *)
(***************************************************************************)
\* IMAGEKIT_CACHEFILE_DIR, below the location of the media storage
root_path == <<"output">>

\* the name parts that [a-z0-9]+ matches
LowerAlnum == {"photo", "my", "old", "banner", "jpg", "png", "webp", "a1b2c3", "d4e5f6"}

\* re.sub(r"\.[a-z0-9]+\.", ".", file): from the left, each part between two
\* dots that matches is dropped with one of its dots; the dot that ended a
\* match cannot start the next one
RECURSIVE strip_from(_, _)
strip_from(parts, i) ==
    IF i >= Len(parts) THEN parts
    ELSE IF parts[i] \in LowerAlnum
         THEN strip_from(SubSeq(parts, 1, i - 1) \o SubSeq(parts, i + 1, Len(parts)), i + 1)
         ELSE strip_from(parts, i + 1)

source_file_of(file) == strip_from(file, 2)

\* Path(file).stem: the name without its last suffix
PathStem(file) == IF Len(file) <= 1 THEN file ELSE SubSeq(file, 1, Len(file) - 1)

\* Command.file_exists: a storage without the directory raises
\* FileNotFoundError and is passed over
file_exists(path, file, storage, static_storage) ==
    \E st \in {storage, static_storage} :
        /\ path \in DOMAIN st
        /\ \E f \in st[path] : PathStem(f) = PathStem(file)

\* the key of the state cache that process_file deletes
state_key(path, file) == [path |-> path, file |-> file]

\* Command.process_file, on st = [storage, cache]
process_file(file, path, st, static_storage) ==
    LET source_path == SubSeq(path, Len(root_path) + 1, Len(path))
        source_file == source_file_of(file)
    IN  IF ~file_exists(source_path, source_file, st.storage, static_storage)
        THEN [storage |-> [st.storage EXCEPT ![path] = @ \ {file}],
              cache |-> st.cache \ {state_key(path, file)}]
        ELSE st

\* "for file in files: self.process_file(file, path)"
RECURSIVE process_files(_, _, _, _)
process_files(files, path, st, static_storage) ==
    IF files = {} THEN st
    ELSE LET file == CHOOSE f \in files : TRUE
         IN  process_files(files \ {file}, path,
                           process_file(file, path, st, static_storage), static_storage)

\* storage.listdir(path)[0]
Subdirectories(path, storage) ==
    {d \in DOMAIN storage : Len(d) = Len(path) + 1 /\ SubSeq(d, 1, Len(path)) = path}

\* "if not any(self.storage.listdir(next_path)): self.storage.delete(next_path)"
delete_if_empty(next_path, st) ==
    IF st.storage[next_path] = {} /\ Subdirectories(next_path, st.storage) = {}
    THEN [st EXCEPT !.storage = [d \in (DOMAIN st.storage) \ {next_path} |-> st.storage[d]]]
    ELSE st

\* Command.process_directory
RECURSIVE process_directory(_, _, _)
RECURSIVE process_directories(_, _, _)
process_directory(path, st, static_storage) ==
    LET directories == Subdirectories(path, st.storage)
        files == st.storage[path]
    IN  process_directories(directories,
                            process_files(files, path, st, static_storage),
                            static_storage)

process_directories(directories, st, static_storage) ==
    IF directories = {} THEN st
    ELSE LET next_path == CHOOSE d \in directories : TRUE
         IN  process_directories(
                 directories \ {next_path},
                 delete_if_empty(next_path,
                                 process_directory(next_path, st, static_storage)),
                 static_storage)

(***************************************************************************)
(* The storages the command is run on.                                     *)
(***************************************************************************)
\* the cache file imagekit's source_name_dot_hash namer gives a source
Variant(source, hash, extension) ==
    SubSeq(source, 1, Len(source) - 1) \o <<hash, extension>>

Photo == <<"photo", "jpg">>
MyPhoto == <<"my", "photo", "jpg">>
Banner == <<"banner", "png">>
Old == <<"old", "jpg">>

RootVariants ==
    {Variant(Photo, "a1b2c3", "webp"), Variant(Photo, "d4e5f6", "webp"),
     Variant(MyPhoto, "a1b2c3", "webp"), Variant(Banner, "a1b2c3", "png"),
     Variant(Old, "a1b2c3", "webp")}

GalleryVariants == {Variant(Photo, "a1b2c3", "webp"), Variant(Old, "d4e5f6", "webp")}

\* a media storage: sources above and below gallery/, cache files in output/
\* and output/gallery/
MediaStorage(sources, gallery, variants, gallery_variants) ==
    [d \in {<<>>, root_path}
           \cup (IF gallery = {} THEN {} ELSE {<<"gallery">>})
           \cup (IF gallery_variants = {} THEN {} ELSE {root_path \o <<"gallery">>}) |->
        CASE d = <<>> -> sources
          [] d = root_path -> variants
          [] d = <<"gallery">> -> gallery
          [] OTHER -> gallery_variants]

\* the directories of the cache tree: root_path and below
CacheDirectories(storage) ==
    {d \in DOMAIN storage :
        Len(d) >= Len(root_path) /\ SubSeq(d, 1, Len(root_path)) = root_path}

\* the state cache holds a key for each cache file
StateKeys(storage) ==
    UNION {{state_key(d, f) : f \in storage[d]} : d \in CacheDirectories(storage)}

NoRender ==
    /\ settings = LazySrcsetSettings(TRUE)
    /\ request = [image |-> RasterImage("big.jpg", ".jpg", 1000, 500),
                  args |-> <<>>, kwargs |-> EmptyDict]
    /\ html = [tag |-> "none"]
    /\ requested = <<>>
    /\ plan = [stage |-> "none"]
    /\ cache = EmptyDict
    /\ clock = 0
    /\ ncalls = 0
    /\ history = <<>>
    /\ call = NoCall

InitCleanup ==
    /\ NoRender
    /\ sweep = NoSweep
    /\ \E sources \in SUBSET {Photo, MyPhoto}, gallery \in SUBSET {Photo},
          variants \in SUBSET RootVariants, gallery_variants \in SUBSET GalleryVariants :
           media = MediaStorage(sources, gallery, variants, gallery_variants)
    /\ static \in {[d \in {<<>>} |-> files] : files \in SUBSET {Banner}}
    /\ state_cache = StateKeys(media)
    /\ swept = FALSE
    /\ before = EmptyDict

\* Command.handle: one run of ./manage.py imagekit_cleanup
Sweep ==
    /\ ~swept
    /\ LET st == process_directory(root_path, [storage |-> media, cache |-> state_cache],
                                   static)
       IN  /\ media' = st.storage
           /\ state_cache' = st.cache
    /\ before' = [media |-> media, state_cache |-> state_cache]
    /\ swept' = TRUE
    /\ UNCHANGED <<static, sweep, renderVars>>

NextCleanup == Sweep

SpecCleanup == InitCleanup /\ [][NextCleanup]_vars

(***************************************************************************)
(* A page that renders several tags one after the other, each with its own *)
(* image and overrides, against the same settings.                         *)
(***************************************************************************)
PageTags ==
    {[image |-> i, args |-> <<>>, kwargs |-> k] :
        i \in {RasterImage("big.jpg", ".jpg", 1000, 500),
               RasterImage("small.png", ".png", 280, 210),
               SvgImage("logo.svg", None, None, <<0, 0, 100, 50>>)},
        k \in ScalarKwargs}

InitPage ==
    /\ settings = LazySrcsetSettings(TRUE)
    /\ request = [image |-> RasterImage("big.jpg", ".jpg", 1000, 500),
                  args |-> <<>>, kwargs |-> EmptyDict]
    /\ html = [tag |-> "none"]
    /\ requested = <<>>
    /\ plan = [stage |-> "none"]
    /\ cache = EmptyDict
    /\ clock = 0
    /\ ncalls = 0
    /\ history = <<>>
    /\ call = NoCall
    /\ NoCleanup

\* the template renders the next tag of the page
RenderTag ==
    /\ ncalls < MaxCalls
    /\ \E tag \in PageTags :
           /\ request' = tag
           /\ Rendering(tag)
    /\ UNCHANGED <<call, cleanupVars>>

NextPage == RenderTag

SpecPage == InitPage /\ [][NextPage]_vars

(***************************************************************************)
(* A sweep of imagekit_cleanup running while the template tag is rendered: *)
(* both work on the media storage and on the imagekit state cache, and     *)
(* their steps interleave.  The steps of the command are its calls of the  *)
(* storage and of the cache; the steps of the tag are the accesses of      *)
(* image.url and image.width that make imagekit look for, generate and     *)
(* read a cache file.                                                      *)
(***************************************************************************)
\* an image of the media storage: its name is its directory and file name;
\* unresizable are the widths at which generating a variant of it fails
MediaImage(dir, file, unresizable) ==
    [name |-> [dir |-> dir, file |-> file], extension |-> ".jpg",
     url |-> [dir |-> dir, file |-> file], width |-> 1000, height |-> 500,
     unresizable |-> unresizable]

\* the hash imagekit's namer gives the generators of the two widths planned
\* for a MediaImage
HashOfWidth == (1000 :> "a1b2c3") @@ (400 :> "d4e5f6")

\* ImageCacheFile(generator).name under source_name_dot_hash: below
\* IMAGEKIT_CACHEFILE_DIR in the directory of the source, the stem of the
\* source, the hash and the extension
cachefile_name(generator) ==
    [path |-> root_path \o generator.source.dir,
     file |-> Variant(generator.source.file, HashOfWidth[generator.width], "jpg")]

has_file(storage, name) == name.path \in DOMAIN storage /\ name.file \in storage[name.path]

\* storage.save: the file is written, its directory made when missing
save_file(storage, name) ==
    [d \in (DOMAIN storage) \cup {name.path} |->
        IF d = name.path
        THEN (IF d \in DOMAIN storage THEN storage[d] ELSE {}) \cup {name.file}
        ELSE storage[d]]

\* what imagekit does before it hands out image.url or the content of the
\* image: the state cache is asked, then the storage; a file in neither is
\* generated, which fails at an unresizable width
ensure_exists(generator, source_img, storage, states) ==
    LET name == cachefile_name(generator)
    IN  IF name \in states
        THEN [ok |-> TRUE, storage |-> storage, states |-> states, generated |-> {}]
        ELSE IF has_file(storage, name)
        THEN [ok |-> TRUE, storage |-> storage, states |-> states \cup {name},
              generated |-> {}]
        ELSE IF generator.width \in source_img.unresizable
        THEN [ok |-> FALSE, storage |-> storage, states |-> states, generated |-> {}]
        ELSE [ok |-> TRUE, storage |-> save_file(storage, name),
              states |-> states \cup {name}, generated |-> {name}]

\* "except FileNotFoundError" left out: the error leaves srcset (a faulty
\* variant, told apart by C11)
file_not_found_raised(source_img) == [tag |-> "error", error |-> "FileNotFoundError"]

\* "except FileNotFoundError: return noop(source_img)"
file_not_found(source_img) == noop(source_img)

\* an exception that srcset does not catch
raised(error) == [tag |-> "error", error |-> error]

\* srcset up to the loop that fills output_imgs: nothing is generated yet
CallStart ==
    /\ call.pc \in {"idle", "done"}
    /\ ncalls < MaxCalls
    /\ LET r == srcset(request.image, request.args, request.kwargs, settings, EmptyDict, 0)
       IN  /\ requested' = r.requested
           /\ plan' = r.plan
           /\ settings' = settings_after(request.kwargs, settings, r)
           /\ IF r.html.tag = "srcset"
              THEN /\ html' = [tag |-> "none"]
                   /\ call' = [call EXCEPT !.pc = "url", !.i = 1, !.out = r.html,
                                           !.missing = {}, !.failed = {}]
              ELSE /\ html' = r.html
                   /\ call' = [call EXCEPT !.pc = "done", !.missing = {}, !.failed = {}]
    /\ ncalls' = ncalls + 1
    /\ history' = Append(history, request)
    /\ UNCHANGED <<request, cache, clock, cleanupVars>>

\* image.url of the next output image
CallUrl ==
    /\ call.pc = "url"
    /\ LET image == requested[call.i]
           e == ensure_exists(image, request.image, media, state_cache)
       IN  IF ~e.ok
           THEN /\ html' = raised("GenerationError")
                /\ call' = [call EXCEPT !.pc = "done", !.failed = @ \cup {image.width}]
                /\ UNCHANGED <<media, state_cache>>
           ELSE /\ media' = e.storage
                /\ state_cache' = e.states
                /\ call' = [call EXCEPT !.pc = "width", !.created = @ \cup e.generated]
                /\ html' = html
    /\ UNCHANGED <<settings, request, requested, plan, cache, clock, ncalls, history,
                   static, swept, before, sweep>>

\* image.width of the same output image: the file is opened and read
CallWidth ==
    /\ call.pc = "width"
    /\ LET image == requested[call.i]
           e == ensure_exists(image, request.image, media, state_cache)
       IN  IF ~e.ok
           THEN /\ html' = raised("GenerationError")
                /\ call' = [call EXCEPT !.pc = "done", !.failed = @ \cup {image.width}]
                /\ UNCHANGED <<media, state_cache>>
           ELSE /\ media' = e.storage
                /\ state_cache' = e.states
                /\ IF ~has_file(e.storage, cachefile_name(image))
                   THEN /\ html' = file_not_found(request.image)
                        /\ call' = [call EXCEPT !.pc = "done",
                                                !.missing = @ \cup {cachefile_name(image)}]
                   ELSE /\ html' = html
                        /\ call' = [call EXCEPT
                                       !.pc = IF call.i = Len(requested) THEN "return"
                                              ELSE "url",
                                       !.i = IF call.i = Len(requested) THEN call.i
                                             ELSE call.i + 1,
                                       !.created = @ \cup e.generated]
    /\ UNCHANGED <<settings, request, requested, plan, cache, clock, ncalls, history,
                   static, swept, before, sweep>>

\* source_img.close() and the final format_html, which takes
\* output_imgs[0].url once more; its width and height are known by now
CallReturn ==
    /\ call.pc = "return"
    /\ LET image == requested[1]
           e == ensure_exists(image, request.image, media, state_cache)
       IN  IF ~e.ok
           THEN /\ html' = raised("GenerationError")
                /\ call' = [call EXCEPT !.pc = "done", !.failed = @ \cup {image.width}]
                /\ UNCHANGED <<media, state_cache>>
           ELSE /\ media' = e.storage
                /\ state_cache' = e.states
                /\ html' = call.out
                /\ call' = [call EXCEPT !.pc = "done", !.created = @ \cup e.generated]
    /\ UNCHANGED <<settings, request, requested, plan, cache, clock, ncalls, history,
                   static, swept, before, sweep>>

\* the frame of process_directory(path): what listdir gave it and where it is
Frame(path, storage) ==
    [path |-> path, files |-> storage[path],
     directories |-> Subdirectories(path, storage),
     pc |-> "files", file |-> <<>>, next_path |-> <<>>]

Top == sweep.stack[Len(sweep.stack)]

\* an exception leaves process_file, process_directory and handle
SweepRaised(error) == [sweep EXCEPT !.status = "failed", !.raised = error]

\* handle() up to the listdir of process_directory(self.root_path)
SweepStart ==
    /\ sweep.status = "idle"
    /\ sweep' = [sweep EXCEPT !.status = "running", !.stack = <<Frame(root_path, media)>>]
    /\ before' = [media |-> media, state_cache |-> state_cache]
    /\ UNCHANGED <<media, static, state_cache, swept, renderVars>>

\* process_file up to self.cache.delete(cache_key): a listdir that fails
\* otherwise than with FileNotFoundError raises
SweepFile ==
    /\ sweep.status = "running"
    /\ Top.pc = "files"
    /\ \E file \in Top.files :
           LET path == Top.path
               source_path == SubSeq(path, Len(root_path) + 1, Len(path))
           IN  IF source_path \in sweep.denied.listdir
               THEN /\ sweep' = SweepRaised("listdir")
                    /\ swept' = TRUE
                    /\ state_cache' = state_cache
               ELSE IF file_exists(source_path, source_file_of(file), media, static)
               THEN /\ sweep' = [sweep EXCEPT !.stack[Len(sweep.stack)].files = @ \ {file}]
                    /\ UNCHANGED <<swept, state_cache>>
               ELSE /\ state_cache' = state_cache \ {state_key(path, file)}
                    /\ sweep' = [sweep EXCEPT !.stack[Len(sweep.stack)].pc = "delete",
                                              !.stack[Len(sweep.stack)].file = file]
                    /\ swept' = swept
    /\ UNCHANGED <<media, static, before, renderVars>>

\* self.storage.delete(filepath): raises when the file may not be deleted
SweepDelete ==
    /\ sweep.status = "running"
    /\ Top.pc = "delete"
    /\ LET name == state_key(Top.path, Top.file)
       IN  IF name \in sweep.denied.delete
           THEN /\ sweep' = SweepRaised("delete")
                /\ swept' = TRUE
                /\ media' = media
           ELSE /\ media' = [media EXCEPT ![Top.path] = @ \ {Top.file}]
                /\ sweep' = [sweep EXCEPT !.stack[Len(sweep.stack)].pc = "files",
                                          !.stack[Len(sweep.stack)].files = @ \ {Top.file},
                                          !.deleted = @ \cup {name}]
                /\ swept' = swept
    /\ UNCHANGED <<static, state_cache, before, renderVars>>

\* "for directory in directories": process_directory(next_path) lists it
SweepEnter ==
    /\ sweep.status = "running"
    /\ Top.pc = "files"
    /\ Top.files = {}
    /\ \E next_path \in Top.directories :
           sweep' = [sweep EXCEPT
                        !.stack = Append([sweep.stack EXCEPT
                                             ![Len(sweep.stack)].directories = @ \ {next_path},
                                             ![Len(sweep.stack)].next_path = next_path,
                                             ![Len(sweep.stack)].pc = "check"],
                                         Frame(next_path, media))]
    /\ UNCHANGED <<media, static, state_cache, swept, before, renderVars>>

\* process_directory returns; handle() returns after that of root_path
SweepLeave ==
    /\ sweep.status = "running"
    /\ Top.pc = "files"
    /\ Top.files = {}
    /\ Top.directories = {}
    /\ sweep' = [sweep EXCEPT !.stack = SubSeq(@, 1, Len(@) - 1),
                              !.status = IF Len(sweep.stack) = 1 THEN "done" ELSE @]
    /\ swept' = (Len(sweep.stack) = 1)
    /\ UNCHANGED <<media, static, state_cache, before, renderVars>>

\* "if not any(self.storage.listdir(next_path))"
SweepCheck ==
    /\ sweep.status = "running"
    /\ Top.pc = "check"
    /\ sweep' = [sweep EXCEPT !.stack[Len(sweep.stack)].pc =
                    IF media[Top.next_path] = {} /\ Subdirectories(Top.next_path, media) = {}
                    THEN "rmdir" ELSE "files"]
    /\ UNCHANGED <<media, static, state_cache, swept, before, renderVars>>

\* "self.storage.delete(next_path)": os.rmdir, which raises OSError on a
\* directory that is not empty
SweepRmdir ==
    /\ sweep.status = "running"
    /\ Top.pc = "rmdir"
    /\ IF media[Top.next_path] # {} \/ Subdirectories(Top.next_path, media) # {}
       THEN /\ sweep' = SweepRaised("rmdir")
            /\ swept' = TRUE
            /\ media' = media
       ELSE /\ media' = [d \in (DOMAIN media) \ {Top.next_path} |-> media[d]]
            /\ sweep' = [sweep EXCEPT !.stack[Len(sweep.stack)].pc = "files"]
            /\ swept' = swept
    /\ UNCHANGED <<static, state_cache, before, renderVars>>

OldVariant == Variant(Old, "a1b2c3", "webp")
OldGalleryVariant == Variant(Old, "d4e5f6", "webp")

\* the storages and the tag of a page whose image is in the media storage
SharedStorage(dir, file, unresizable) ==
    /\ settings = LazySrcsetSettings(TRUE)
    /\ request = [image |-> MediaImage(dir, file, unresizable), args |-> <<>>,
                  kwargs |-> [config |-> "custom"]]
    /\ html = [tag |-> "none"]
    /\ requested = <<>>
    /\ plan = [stage |-> "none"]
    /\ cache = EmptyDict
    /\ clock = 0
    /\ ncalls = 0
    /\ history = <<>>
    /\ call = NoCall
    /\ \E variants \in SUBSET {OldVariant}, gallery_variants \in SUBSET {OldGalleryVariant} :
           media = MediaStorage({Photo, MyPhoto}, {Photo}, variants, gallery_variants)
    /\ static = [d \in {<<>>} |-> {}]
    /\ state_cache = StateKeys(media)
    /\ swept = FALSE
    /\ before = EmptyDict

\* any of the images, resizable or not, and a user of the command who may be
\* denied a delete or a listdir
InitConcurrent ==
    /\ \E name \in {[dir |-> <<>>, file |-> Photo], [dir |-> <<>>, file |-> MyPhoto],
                    [dir |-> <<"gallery">>, file |-> Photo]},
          unresizable \in {{}, {400}, {1000}} :
           SharedStorage(name.dir, name.file, unresizable)
    /\ \E denied \in {[delete |-> {}, listdir |-> {}],
                      [delete |-> {state_key(root_path, OldVariant)}, listdir |-> {}],
                      [delete |-> {}, listdir |-> {<<"gallery">>}]} :
           sweep = [NoSweep EXCEPT !.denied = denied]

NextConcurrent ==
    \/ CallStart
    \/ CallUrl
    \/ CallWidth
    \/ CallReturn
    \/ SweepStart
    \/ SweepFile
    \/ SweepDelete
    \/ SweepEnter
    \/ SweepLeave
    \/ SweepCheck
    \/ SweepRmdir

SpecConcurrent == InitConcurrent /\ [][NextConcurrent]_vars

\* the same with nothing in the way: every variant can be generated, the
\* command's user is denied nothing, and no source has two dots in its name
InitRace ==
    /\ \E dir \in {<<>>, <<"gallery">>} : SharedStorage(dir, Photo, {})
    /\ sweep = NoSweep

SpecRace == InitRace /\ [][NextConcurrent]_vars

(***************************************************************************)
(* What the properties below read off a state.                             *)
(***************************************************************************)
\* the tag has been rendered and returned the srcset attributes
Planned == ncalls >= 1 /\ html.tag = "srcset"

\* the tag has been rendered for an image that is neither ignored nor an SVG
RenderedRaster ==
    /\ ncalls >= 1
    /\ request.image.extension \notin settings.LAZY_SRCSET_IGNORED_EXTENSIONS \cup {".svg"}

RequestedWidths == {requested[i].width : i \in DOMAIN requested}

\* the breakpoint keywords of the tag and the config it names
BreakpointKeys == (DOMAIN request.kwargs) \ (ScalarKeys \cup {"config"})

NamedConfig ==
    settings.LAZY_SRCSET[IF "config" \in DOMAIN request.kwargs
                         THEN request.kwargs["config"] ELSE "default"]

\* max_width as the tag and the named config give it, None when neither does
GivenMaxWidth ==
    IF "max_width" \in DOMAIN request.kwargs THEN request.kwargs["max_width"]
    ELSE IF "max_width" \in DOMAIN NamedConfig THEN NamedConfig["max_width"]
    ELSE None

ExpectedBaseWidth ==
    IF GivenMaxWidth = None \/ GivenMaxWidth > request.image.width
    THEN request.image.width
    ELSE GivenMaxWidth

\* default_size as the tag or else the named config gives it: <<size>>, or
\* <<>> when neither does
GivenDefaultSize ==
    IF "default_size" \in DOMAIN request.kwargs THEN <<request.kwargs["default_size"]>>
    ELSE IF "default_size" \in DOMAIN NamedConfig THEN <<NamedConfig["default_size"]>>
    ELSE <<>>

\* the px-unit widths of the size spec
PxWidths ==
    {plan.sizes_dict[b].width : b \in {c \in DOMAIN plan.sizes_dict :
                                          plan.sizes_dict[c].units = "px"}}

(***************************************************************************)
(* C1: every width srcset requests from the generator is at most the width *)
(* of the source image (no variant is upscaled).                           *)
(***************************************************************************)
C1_NoUpscaling ==
    Planned => \A w \in RequestedWidths : w <= request.image.width

(***************************************************************************)
(* C2: the kept widths are strictly descending, and each kept width that   *)
(* follows another is at least threshold below it or is required (the base *)
(* width or a px-unit width); an optional width is never the first kept    *)
(* width.                                                                  *)
(***************************************************************************)
C2_ThresholdSpacing ==
    Planned =>
        \A i \in DOMAIN requested :
            LET b == requested[i].width
                is_required == b = ExpectedBaseWidth \/ b \in PxWidths
            IN  /\ i > 1 => requested[i - 1].width > b
                /\ ~is_required =>
                       /\ i > 1
                       /\ requested[i - 1].width - b >= plan.conf["threshold"]

\* C2's case: a positive threshold dropped one optional width and kept another
C2_Witness ==
    /\ Planned
    /\ plan.conf["threshold"] > 0
    /\ \E w \in DOMAIN plan.widths_dict : w \notin RequestedWidths
    /\ \E w \in RequestedWidths : w # ExpectedBaseWidth /\ w \notin PxWidths

(***************************************************************************)
(* C3: whenever the tag is rendered for a raster image with the feature    *)
(* enabled, variants are generated, the base width min(max_width, source   *)
(* width) (the source width when max_width is unset or larger) is among    *)
(* them, and so the list of variants is not empty.                         *)
(***************************************************************************)
C3_BaseWidthGenerated ==
    (RenderedRaster /\ settings.LAZY_SRCSET_ENABLED) =>
        /\ html.tag = "srcset"
        /\ requested # <<>>
        /\ ExpectedBaseWidth \in RequestedWidths
        /\ plan.conf["max_width"] = ExpectedBaseWidth

(***************************************************************************)
(* C4: once the tag has been rendered, rendering it again returns the same *)
(* output and leaves the cache directory as it is: the same files, each    *)
(* with its modification time.                                             *)
(***************************************************************************)
C4_RenderIdempotent ==
    [][ncalls >= 1 => (html' = html /\ requested' = requested /\ cache' = cache)]_vars

\* C4's case: a second render of a tag whose first render generated files
C4_Witness ==
    /\ ncalls = 2
    /\ html.tag = "srcset"
    /\ Len(requested) >= 2
    /\ \A i \in DOMAIN requested :
           /\ ImageCacheFile(requested[i]) \in DOMAIN cache
           /\ cache[ImageCacheFile(requested[i])] = 0

(***************************************************************************)
(* C6: the sizes list has one entry per breakpoint of the size spec, in    *)
(* ascending breakpoint order, each with the value and unit of its         *)
(* breakpoint, then one default entry: the explicit default_size when one  *)
(* is given, else the value and unit of the greatest breakpoint.  For the  *)
(* breakpoints {1920: 25vw, 1024: 50vw} it is the 1024 entry, the 1920     *)
(* entry, then 25vw.                                                       *)
(***************************************************************************)
C6_SizesHintList ==
    Planned =>
        LET bps == Sorted(DOMAIN plan.sizes_dict)
            sizes == html.sizes
            last == sizes[Len(sizes)]
        IN  /\ Len(sizes) = Cardinality(DOMAIN plan.sizes_dict) + 1
            /\ \A i \in DOMAIN bps :
                   sizes[i] = [breakpoint |-> bps[i],
                               width |-> plan.sizes_dict[bps[i]].width,
                               units |-> plan.sizes_dict[bps[i]].units]
            /\ \A i \in 1..(Len(bps) - 1) : bps[i] < bps[i + 1]
            /\ IF GivenDefaultSize # <<>>
               THEN last = [width |-> GivenDefaultSize[1].n,
                            units |-> IF GivenDefaultSize[1].u = ""
                                      THEN "vw" ELSE GivenDefaultSize[1].u]
               ELSE last = [width |-> plan.sizes_dict[bps[Len(bps)]].width,
                            units |-> plan.sizes_dict[bps[Len(bps)]].units]
            /\ BreakpointKeys = {"1024", "1920"} /\ GivenDefaultSize = <<>> =>
                   sizes = <<[breakpoint |-> 1024, width |-> 50, units |-> "vw"],
                             [breakpoint |-> 1920, width |-> 25, units |-> "vw"],
                             [width |-> 25, units |-> "vw"]>>

\* C6's case: the breakpoints {1920: 25vw, 1024: 50vw} without a default_size
C6_Witness ==
    /\ Planned
    /\ BreakpointKeys = {"1024", "1920"}
    /\ GivenDefaultSize = <<>>
    /\ Len(html.sizes) = 3

(***************************************************************************)
(* C7 as stated: while LAZY_SRCSET_ENABLED is false every call returns only*)
(* the src, width and height of the source image, requests no variant and  *)
(* leaves the cache directory empty.                                       *)
(***************************************************************************)
C7_DisabledReturnsNoop ==
    (ncalls >= 1 /\ ~settings.LAZY_SRCSET_ENABLED) =>
        /\ html = [tag |-> "noop", src |-> request.image.url,
                   width |-> request.image.width, height |-> request.image.height]
        /\ requested = <<>>
        /\ cache = EmptyDict

(***************************************************************************)
(* C7 as amended: while LAZY_SRCSET_ENABLED is false no call requests a    *)
(* variant and the cache directory stays empty; for an image that is not an*)
(* SVG the call returns only the src, width and height of the source image,*)
(* and for an SVG it returns the SVG output (src, role and the dimensions  *)
(* read from the file, when it has any).                                   *)
(***************************************************************************)
C7_DisabledGeneratesNothing ==
    (ncalls >= 1 /\ ~settings.LAZY_SRCSET_ENABLED) =>
        /\ requested = <<>>
        /\ cache = EmptyDict
        /\ request.image.extension # ".svg" =>
               html = [tag |-> "noop", src |-> request.image.url,
                       width |-> request.image.width, height |-> request.image.height]
        /\ request.image.extension = ".svg" =>
               /\ html.tag = "svg"
               /\ html.src = request.image.url
               /\ DOMAIN html \subseteq {"tag", "src", "role", "width", "height"}

\* C7's case: a raster image rendered with sizes and breakpoints while disabled
C7_Witness ==
    /\ ncalls >= 1
    /\ ~settings.LAZY_SRCSET_ENABLED
    /\ request.image.extension = ".jpg"
    /\ request.args # <<>>
    /\ BreakpointKeys # {}
    /\ html.tag = "noop"

(***************************************************************************)
(* C8: every px-unit size of the size spec is the width of a generated     *)
(* variant, whatever the threshold.                                        *)
(***************************************************************************)
C8_PxWidthGenerated ==
    Planned => PxWidths \subseteq RequestedWidths

\* a size as the size spec holds it: a bare integer is in vw
AsSize(size) == [width |-> size.n, units |-> IF size.u = "" THEN "vw" ELSE size.u]

(***************************************************************************)
(* C9 as stated: without breakpoint keywords the positional sizes go to the*)
(* named config's breakpoints in ascending breakpoint order (the first size*)
(* to the smallest breakpoint), the breakpoints left over get 100vw, and   *)
(* the sizes beyond the number of breakpoints are ignored.                 *)
(***************************************************************************)
C9_AscendingAlignment ==
    (Planned /\ BreakpointKeys = {}) =>
        LET bps == Sorted(Range(NamedConfig["breakpoints"]))
        IN  /\ DOMAIN plan.sizes_dict = Range(bps)
            /\ \A i \in DOMAIN bps :
                   plan.sizes_dict[bps[i]] =
                       IF i <= Len(request.args) THEN AsSize(request.args[i])
                       ELSE [width |-> 100, units |-> "vw"]

(***************************************************************************)
(* C9 as amended: without breakpoint keywords the positional sizes go to   *)
(* the named config's breakpoints in the order the config lists them (the  *)
(* first size to the first listed breakpoint, which is the greatest one,   *)
(* 1920, in the default config), the breakpoints left over get 100vw, and  *)
(* the sizes beyond the number of breakpoints are ignored.                 *)
(***************************************************************************)
C9_ListedOrderAlignment ==
    (Planned /\ BreakpointKeys = {}) =>
        LET bps == NamedConfig["breakpoints"]
        IN  /\ DOMAIN plan.sizes_dict = Range(bps)
            /\ \A i \in DOMAIN bps :
                   plan.sizes_dict[bps[i]] =
                       IF i <= Len(request.args) THEN AsSize(request.args[i])
                       ELSE [width |-> 100, units |-> "vw"]

\* C9's case: fewer positional sizes than breakpoints, on a config that does
\* not list its breakpoints in ascending order
C9_Witness ==
    /\ Planned
    /\ BreakpointKeys = {}
    /\ request.args # <<>>
    /\ Len(request.args) < Len(NamedConfig["breakpoints"])
    /\ NamedConfig["breakpoints"] # Sorted(Range(NamedConfig["breakpoints"]))
    /\ plan.sizes_dict[NamedConfig["breakpoints"][1]] = AsSize(request.args[1])

(***************************************************************************)
(* C10: with breakpoint keywords the planned breakpoints are exactly those *)
(* keywords: the named config's breakpoints add no width and no sizes      *)
(* entry, and positional sizes change nothing of the output; config,       *)
(* max_width, quality, threshold and default_size are never read as        *)
(* breakpoints (no call fails on them, and with only them the config's     *)
(* breakpoints are planned).                                               *)
(***************************************************************************)
C10_KeywordsReplaceBreakpoints ==
    /\ (RenderedRaster /\ settings.LAZY_SRCSET_ENABLED) =>
           ~(html.tag = "error" /\ html.error = "TemplateSyntaxError")
    /\ (Planned /\ BreakpointKeys = {}) =>
           DOMAIN plan.sizes_dict = Range(NamedConfig["breakpoints"])
    /\ (Planned /\ BreakpointKeys # {}) =>
           LET given == {DecimalValue[k] : k \in BreakpointKeys}
               candidate(k) == IF request.kwargs[k].u = "px" THEN request.kwargs[k].n
                               ELSE Ceil(DecimalValue[k] * request.kwargs[k].n, 100)
           IN  /\ DOMAIN plan.sizes_dict = given
               /\ \A k \in BreakpointKeys :
                      plan.sizes_dict[DecimalValue[k]] = AsSize(request.kwargs[k])
               /\ {html.sizes[i].breakpoint : i \in 1..(Len(html.sizes) - 1)} = given
               /\ DOMAIN plan.widths_dict \subseteq
                      {ExpectedBaseWidth} \cup {candidate(k) : k \in BreakpointKeys}
               /\ html = srcset(request.image, <<>>, request.kwargs, settings,
                                EmptyDict, 0).html

\* C10's case: breakpoint keywords together with positional sizes and a
\* scalar override, on a config whose breakpoints are others
C10_Witness ==
    /\ Planned
    /\ BreakpointKeys = {"400", "1200"}
    /\ request.args # <<>>
    /\ "max_width" \in DOMAIN request.kwargs
    /\ Range(NamedConfig["breakpoints"]) \cap {400, 1200} = {}

\* the stem of the source of a cache file: its name without the hash and
\* the extension
SourceStem(file) == SubSeq(file, 1, Len(file) - 2)

\* a cache file of directory d that handle() found is orphaned: no source
\* store has, in the matching directory, a file of that stem
Orphaned(d, file) ==
    LET source_path == SubSeq(d, Len(root_path) + 1, Len(d))
    IN  \A st \in {before.media, static} :
            source_path \in DOMAIN st => \A f \in st[source_path] : PathStem(f) # SourceStem(file)

(***************************************************************************)
(* C5: after a sweep exactly the orphaned cache files are gone, with their *)
(* state cache keys; every cache file whose source exists is still there,  *)
(* with its state cache key; no directory below the cache root is left     *)
(* empty; the other directories are as they were.  The source names        *)
(* include one with two dots (my.photo.jpg).                               *)
(***************************************************************************)
C5_SweepDeletesExactlyOrphans ==
    swept =>
        /\ \A d \in CacheDirectories(before.media) : \A f \in before.media[d] :
               IF Orphaned(d, f)
               THEN /\ ~(d \in DOMAIN media /\ f \in media[d])
                    /\ state_key(d, f) \notin state_cache
               ELSE /\ d \in DOMAIN media /\ f \in media[d]
                    /\ state_key(d, f) \in state_cache
        /\ \A d \in CacheDirectories(media) \ {root_path} :
               media[d] # {} \/ Subdirectories(d, media) # {}
        /\ \A d \in (DOMAIN before.media) \ CacheDirectories(before.media) :
               d \in DOMAIN media /\ media[d] = before.media[d]

(***************************************************************************)
(* C12: a candidate width that a px-unit breakpoint claims is required in  *)
(* the plan whatever other breakpoints resolve to the same width and in    *)
(* whatever order they are processed: no vw-unit breakpoint downgrades it  *)
(* to optional.                                                            *)
(***************************************************************************)
C12_RequiredSurvivesDuplicates ==
    Planned => \A w \in PxWidths : w \in DOMAIN plan.widths_dict /\ plan.widths_dict[w]

(***************************************************************************)
(* C16: after any sequence of srcset calls, whatever overrides (config,    *)
(* max_width, quality, threshold, default_size) and source widths they     *)
(* have, the settings are what they were, the named configuration table    *)
(* included; and a call without overrides plans from the original values   *)
(* of its config: every key of the config as the table defines it, the     *)
(* threshold and generator defaults, and max_width limited to the width of *)
(* its own source.                                                         *)
(***************************************************************************)
C16_SettingsUnchanged ==
    /\ settings = LazySrcsetSettings(TRUE)
    /\ settings.LAZY_SRCSET = LAZY_SRCSET
    /\ (Planned /\ DOMAIN request.kwargs = {}) =>
           LET original == LAZY_SRCSET["default"]
           IN  /\ DOMAIN plan.conf = (DOMAIN original) \cup {"threshold", "generator_id"}
               /\ \A k \in (DOMAIN original) \ {"max_width"} : plan.conf[k] = original[k]
               /\ plan.conf["threshold"] = LAZY_SRCSET_THRESHOLD
               /\ plan.conf["generator_id"] = LAZY_SRCSET_GENERATOR_ID
               /\ plan.conf["max_width"] = IF original["max_width"] > request.image.width
                                           THEN request.image.width
                                           ELSE original["max_width"]

\* C16's case: a call that overrides max_width and threshold on a source
\* narrower than both max_width values, then a call without overrides on a
\* wider source
C16_Witness ==
    /\ Len(history) = 2
    /\ history[1].image.width = 280
    /\ DOMAIN history[1].kwargs = {"max_width", "threshold"}
    /\ history[2].kwargs = EmptyDict
    /\ Planned
    /\ plan.conf["max_width"] = 1000
    /\ settings.LAZY_SRCSET["default"]["max_width"] = 2560

(***************************************************************************)
(* C11: when a call of srcset has ended after the file of one of its       *)
(* output images was found missing on reading it (a sweep deleted it while *)
(* the output was being assembled), what the call returned is the noop     *)
(* output, the src, width and height of the source image, and not an       *)
(* error.                                                                  *)
(***************************************************************************)
C11_MissingFileDegrades ==
    (call.pc = "done" /\ call.missing # {}) =>
        /\ html.tag = "noop"
        /\ html.src = request.image.url
        /\ html.width = request.image.width
        /\ html.height = request.image.height

\* C11's case: the sweep deleted a file of the call between the call's look
\* for it and its read
C11_Witness ==
    /\ call.pc = "done"
    /\ call.missing # {}
    /\ call.missing \subseteq sweep.deleted
    /\ \E i \in DOMAIN requested : cachefile_name(requested[i]) \in call.missing

\* the directory of the sources of the cache files of directory path
SourcePath(path) == SubSeq(path, Len(root_path) + 1, Len(path))

(***************************************************************************)
(* C13: no error on one file ends a sweep: neither a delete that fails nor *)
(* an existence check that fails (a source directory that cannot be        *)
(* listed) raises out of the sweep, which goes on with the remaining files *)
(* and directories; and no cache file is deleted whose source directory    *)
(* could not be listed.                                                    *)
(***************************************************************************)
C13_SweepSkipsErrors ==
    /\ sweep.raised \notin {"delete", "listdir"}
    /\ \A name \in sweep.deleted : SourcePath(name.path) \notin sweep.denied.listdir

(***************************************************************************)
(* C14: in every interleaving of a sweep with srcset calls, no cache file  *)
(* that a call created and whose source exists is deleted by the sweep,    *)
(* every such file is still in the storage, and the sweep does not fail on *)
(* a directory that a call wrote into between the sweep's emptiness check  *)
(* and its delete of the directory.                                        *)
(***************************************************************************)
C14_SweepSafeWithRenders ==
    /\ \A name \in call.created :
           file_exists(SourcePath(name.path), source_file_of(name.file), media, static)
               => name \notin sweep.deleted /\ has_file(media, name)
    /\ sweep.raised # "rmdir"

(***************************************************************************)
(* C15: when a call of srcset has ended and the generation of the variant  *)
(* of one of its planned widths failed in it, the call still returned the  *)
(* srcset output, and the variant of every other planned width of the call *)
(* is in the storage and listed in that output.                            *)
(***************************************************************************)
C15_FailureScopedToWidth ==
    (call.pc = "done" /\ call.failed # {}) =>
        /\ html.tag = "srcset"
        /\ \A i \in DOMAIN requested :
               requested[i].width \notin call.failed =>
                   /\ has_file(media, cachefile_name(requested[i]))
                   /\ \E j \in DOMAIN html.srcset :
                          html.srcset[j].width = requested[i].width

====
